---- MODULE Spec2Model ----
(***************************************************************************)
(* State-machine model of the vector index of backend/rag.py: the          *)
(* FaissStore (add / search / _save / _load), the process-wide INDEX_STATE *)
(* handle (get_or_create_index / clear_index) and the lazily loaded        *)
(* embedding model.                                                        *)
(*                                                                         *)
(* Spec        the life cycle of the index: get_or_create_index, add and   *)
(*             clear_index, each run to completion, from any contents of   *)
(*             the index directory; add goes through the current handle.   *)
(* SpecSearch  one process on INDEX_DIR: get_or_create_index, add,         *)
(*             upsert_documents, FaissStore.search and                     *)
(*             search_similar_snippets, each run to completion.            *)
(* SpecConc    request threads interleave at the statements of the         *)
(*             operations (the code takes no lock).                        *)
(* SpecStale   callers that keep a handle across clear_index and add       *)
(*             through it.                                                 *)
(* SpecUpload  the upload handlers of views.py and main.py.                *)
(* SpecCrash   SpecConc with the process stopping at any statement.        *)
(* SpecRuns    successive runs of the process over one index directory:    *)
(*             get_or_create_index, upsert_documents, get_embedding and    *)
(*             search_similar_snippets, and the restart of the process.    *)
(*                                                                         *)
(* Modelling decisions:                                                    *)
(*  - a vector is a direction (a multiple of 60 degrees) and a length;     *)
(*    the inner product of two vectors is |a| * |b| * cos(angle), kept     *)
(*    as twice its value so that it stays an integer; the 1e-8 guard of    *)
(*    the normalisation is below the model's resolution;                   *)
(*  - a str is the sequence of its characters; strip, lower, endswith,     *)
(*    the substring test and slicing work on that sequence;                *)
(*  - an embedding is a function of the text alone within one process:     *)
(*    a unit vector from the model, a longer one from the pseudo-random    *)
(*    fallback, whose seed is the salted hash of the text;                 *)
(*  - a file is absent, unreadable, or holds a sequence of entries; the    *)
(*    file system itself does not fail on writes;                          *)
(*  - HAS_FAISS, the USE_ML_EMBEDDINGS environment variable and the state  *)
(*    of the sentence-transformers dependency are fixed per process and    *)
(*    chosen in Init.                                                      *)
(***************************************************************************)
EXTENDS Integers, Sequences, FiniteSets, TLC

VARIABLES
    HAS_FAISS,            \* rag.py:8-13, fixed at import
    mlEnv,                \* os.getenv('USE_ML_EMBEDDINGS') == 'true'
    mlDep,                \* "ok" | "not_installed" | "load_fails" | "encode_fails"
    hashSeed,             \* the salt of str hashes, drawn when the process starts
    detached,             \* history: store -> records it held when clear_index
                          \* let go of it, NotDetached before (SpecStale)
    EMBEDDING_MODEL,      \* FALSE = None, TRUE = a loaded model
    USE_REAL_EMBEDDINGS,
    disk,                 \* directory -> the three files the code touches
    INDEX_STATE,          \* [store, dir]
    stores,               \* every FaissStore object constructed so far
    adds,                 \* number of add calls made (bounded by MaxAdds)
    last,                 \* the operation that ran last and what it returned
    threads               \* SpecConc: per-thread program counter and locals

vars == <<HAS_FAISS, mlEnv, mlDep, hashSeed, detached, EMBEDDING_MODEL, USE_REAL_EMBEDDINGS,
          disk, INDEX_STATE, stores, adds, last, threads>>

\* What no call into rag.py changes: the environment of the process, and
\* the history variable that is written for the clear of SpecStale only.
envVars == <<HAS_FAISS, mlEnv, mlDep, hashSeed, detached>>

---------------------------------------------------------------------------
(* Bounds *)

MaxStores == 2      \* FaissStore objects constructed in one run
MaxAdds == 2        \* add calls in one run
MaxInitLen == 1     \* entries of a file found on disk at start
MaxK == 2           \* largest k passed to search
MaxLen == 3         \* SpecSearch: records a store holds after an upsert
NumThreads == 2     \* request threads of SpecConc

---------------------------------------------------------------------------
(* Data *)

Dirs == {"d1", "d2"}
\* the one index directory the views use (views.py:35, main.py:26)
INDEX_DIR == "d1"
NoStore == 0
NotDetached == 0 - 1
StoreIds == 1..MaxStores

\* Input vectors (before normalisation): direction in units of 60 degrees.
Vec(d, m) == [dir |-> d, mag |-> m]
Vecs == {Vec(0, 2), Vec(1, 1)}

\* A str is the sequence of its characters.
S_Fma == <<"F", "=", "m", "a">>
S_notes == <<"n", "o", "t", "e", "s">>
S_physics_pdf == <<"p", "h", "y", "s", "i", "c", "s", ".", "p", "d", "f">>
S_x_txt == <<"x", ".", "t", "x", "t">>
S_s1 == <<"s", "1">>

\* Python values of a record's fields: None or a str.
PyNone == [t |-> "None", s |-> <<>>]
PyStr(x) == [t |-> "str", s |-> x]
Doc(text, source, sid) == [text |-> text, source |-> source, session_id |-> sid]
Recs == {Doc(PyStr(S_Fma), PyStr(S_physics_pdf), PyNone),
         Doc(PyStr(S_notes), PyStr(S_x_txt), PyStr(S_s1))}

\* Documents as the views and the tests of the index hand them in: their
\* text may be blank or None, carry the placeholder marker, or come from a
\* file with an audio extension.
S_blank == <<" ", " ">>
S_hello == <<"h", "e", "l", "l", "o">>
S_Clip_WAV == <<"C", "l", "i", "p", ".", "W", "A", "V">>
S_Placeholder == <<"P", "l", "a", "c", "e", "h", "o", "l", "d", "e", "r">>
S_a_txt == <<"a", ".", "t", "x", "t">>
S_why == <<"w", "h", "y">>

D_phys == Doc(PyStr(S_Fma), PyStr(S_physics_pdf), PyNone)
D_notes == Doc(PyStr(S_notes), PyStr(S_x_txt), PyStr(S_s1))
D_blank == Doc(PyStr(S_blank), PyStr(S_x_txt), PyNone)
D_none == Doc(PyNone, PyStr(S_x_txt), PyNone)
D_audio == Doc(PyStr(S_hello), PyStr(S_Clip_WAV), PyNone)
D_ph == Doc(PyStr(S_Placeholder), PyStr(S_a_txt), PyNone)

RECURSIVE SeqsUpTo(_, _)
SeqsUpTo(S, n) ==
    IF n = 0 THEN {<<>>}
    ELSE LET shorter == SeqsUpTo(S, n - 1)
         IN  shorter \cup {Append(q, x) : q \in {p \in shorter : Len(p) = n - 1}, x \in S}

MapSeq(F(_), q) == [i \in 1..Len(q) |-> F(q[i])]

---------------------------------------------------------------------------
(* str operations used by rag.py:204, 220-236 *)

Whitespace == {" ", "\t", "\n", "\r", "\f"}

UpperCase == <<"A", "B", "C", "D", "E", "F", "G", "H", "I", "J", "K", "L", "M",
               "N", "O", "P", "Q", "R", "S", "T", "U", "V", "W", "X", "Y", "Z">>
LowerCase == <<"a", "b", "c", "d", "e", "f", "g", "h", "i", "j", "k", "l", "m",
               "n", "o", "p", "q", "r", "s", "t", "u", "v", "w", "x", "y", "z">>

LowerChar(c) ==
    IF \E i \in 1..Len(UpperCase) : UpperCase[i] = c
    THEN LowerCase[CHOOSE i \in 1..Len(UpperCase) : UpperCase[i] = c]
    ELSE c

\* s.lower()
StrLower(s) == [i \in 1..Len(s) |-> LowerChar(s[i])]

RECURSIVE LStrip(_)
LStrip(s) == IF s # <<>> /\ Head(s) \in Whitespace THEN LStrip(Tail(s)) ELSE s

RECURSIVE RStrip(_)
RStrip(s) ==
    IF s # <<>> /\ s[Len(s)] \in Whitespace THEN RStrip(SubSeq(s, 1, Len(s) - 1)) ELSE s

\* s.strip()
StrStrip(s) == RStrip(LStrip(s))

\* s.endswith(suffix)
EndsWith(s, suffix) ==
    /\ Len(s) >= Len(suffix)
    /\ SubSeq(s, Len(s) - Len(suffix) + 1, Len(s)) = suffix

\* sub in s
Contains(s, sub) ==
    \E i \in 1..(Len(s) - Len(sub) + 1) : SubSeq(s, i, i + Len(sub) - 1) = sub

\* q[:n], Python slicing: a negative n counts from the end
Prefix(q, n) ==
    IF n >= Len(q) THEN q
    ELSE IF n >= 0 THEN SubSeq(q, 1, n)
    ELSE IF Len(q) + n > 0 THEN SubSeq(q, 1, Len(q) + n)
    ELSE <<>>

\* x or "": None and "" both give ""
OrEmpty(v) == IF v.t = "str" THEN v.s ELSE <<>>

\* not text or not text.strip() (rag.py:204)
IsBlankText(v) == v.t # "str" \/ v.s = <<>> \/ StrStrip(v.s) = <<>>

---------------------------------------------------------------------------
(* Vectors: rag.py:121-122, 135, 150 *)

\* twice the cosine of the angle between two directions
Cos2(a, b) ==
    LET k == (a - b + 6) % 6
    IN  CASE k = 0 -> 2
          [] k = 1 -> 1
          [] k = 2 -> -1
          [] k = 3 -> -2
          [] k = 4 -> -1
          [] OTHER -> 1

\* v / (norm(v) + 1e-8): a zero vector stays zero
Normalize(v) == [dir |-> v.dir, mag |-> IF v.mag = 0 THEN 0 ELSE 1]

\* twice the inner product
Dot2(a, b) == a.mag * b.mag * Cos2(a.dir, b.dir)

---------------------------------------------------------------------------
(* Files and serialisation: rag.py:52-70 *)

Absent == [st |-> "absent", data |-> <<>>]
Corrupt == [st |-> "corrupt", data |-> <<>>]
Holding(data) == [st |-> "ok", data |-> data]
Exists(f) == f.st # "absent"

\* json.dump / json.load of one record: None <-> null, str <-> string
JsonOfPy(v) == IF v.t = "None" THEN [j |-> "null", s |-> <<>>] ELSE [j |-> "string", s |-> v.s]
PyOfJson(v) == IF v.j = "null" THEN PyNone ELSE PyStr(v.s)
JsonDumpRec(r) == [f \in DOMAIN r |-> JsonOfPy(r[f])]
JsonLoadRec(r) == [f \in DOMAIN r |-> PyOfJson(r[f])]
JsonDump(metadatas) == MapSeq(JsonDumpRec, metadatas)
JsonLoad(data) == MapSeq(JsonLoadRec, data)

EmptyDir == [index |-> Absent, npy |-> Absent, meta |-> Absent]

---------------------------------------------------------------------------
(* FaissStore: rag.py:36-158 *)

\* A slot of the heap that holds no object yet.
NullStore ==
    [alive |-> FALSE, dir |-> "d1", hasIndex |-> FALSE,
     index |-> <<>>, vectors |-> <<>>, metadatas |-> <<>>]

\* __init__ before _load runs (rag.py:38-43)
NewStore(d) ==
    [alive |-> TRUE, dir |-> d, hasIndex |-> FALSE,
     index |-> <<>>, vectors |-> <<>>, metadatas |-> <<>>]

\* The vector collection the build uses: index.ntotal rows, or self.vectors.
StoredVectors(s) == IF HAS_FAISS THEN s.index ELSE s.vectors
NumVectors(s) == Len(StoredVectors(s))

\* The file _save writes the vectors to, and _load reads them from.
VectorFile(files) == IF HAS_FAISS THEN files.index ELSE files.npy

\* np.save(self.index_path + '.npy', ...) (rag.py:56)
WriteVectorsNoFaiss(s, dk) == [dk EXCEPT ![s.dir].npy = Holding(s.vectors)]

\* faiss.write_index(self.index, self.index_path) (rag.py:66)
WriteVectorsFaiss(s, dk) == [dk EXCEPT ![s.dir].index = Holding(s.index)]

\* A manifest write that leaves the file as it was.
WriteManifest_Skipped(s, dk) == dk

\* open(self.meta_path, "w"); json.dump(self.metadatas, f) (rag.py:57-58, 67-68)
WriteManifest(s, dk) == [dk EXCEPT ![s.dir].meta = Holding(JsonDump(s.metadatas))]

\* _save without FAISS (rag.py:53-61)
SaveNoFaiss(s, dk) == WriteManifest(s, WriteVectorsNoFaiss(s, dk))

\* _save with FAISS; nothing when index is None (rag.py:63-70)
SaveFaiss(s, dk) ==
    IF ~s.hasIndex THEN dk ELSE WriteManifest(s, WriteVectorsFaiss(s, dk))

_save(s, dk) == IF ~HAS_FAISS THEN SaveNoFaiss(s, dk) ELSE SaveFaiss(s, dk)

\* _load without FAISS (rag.py:73-90): never saves
LoadNoFaiss(s, dk) ==
    LET f == dk[s.dir]
        empty == [s EXCEPT !.vectors = <<>>, !.metadatas = <<>>]
    IN  IF Exists(f.npy) /\ Exists(f.meta)
        THEN IF f.npy.st = "ok" /\ f.meta.st = "ok"
             THEN [store |-> [s EXCEPT !.vectors = f.npy.data,
                                       !.metadatas = JsonLoad(f.meta.data)],
                   disk |-> dk]
             ELSE [store |-> empty, disk |-> dk]      \* except Exception
        ELSE [store |-> empty, disk |-> dk]

\* _load with FAISS (rag.py:92-106): a failed or impossible read ends in
\* _create_index and _save
LoadFaiss(s, dk) ==
    LET f == dk[s.dir]
        fresh == [s EXCEPT !.hasIndex = TRUE, !.index = <<>>, !.metadatas = <<>>]
    IN  IF Exists(f.index) /\ Exists(f.meta) /\ f.index.st = "ok" /\ f.meta.st = "ok"
        THEN [store |-> [s EXCEPT !.hasIndex = TRUE, !.index = f.index.data,
                                  !.metadatas = JsonLoad(f.meta.data)],
              disk |-> dk]
        ELSE [store |-> fresh, disk |-> _save(fresh, dk)]

_load(s, dk) == IF ~HAS_FAISS THEN LoadNoFaiss(s, dk) ELSE LoadFaiss(s, dk)

\* FaissStore(dim, index_path, meta_path): both paths are in directory d
FaissStoreInit(d, dk) == _load(NewStore(d), dk)

\* add without FAISS (rag.py:110-116): the vectors are appended as given
AddNoFaiss(s, vectors, metadatas) ==
    [s EXCEPT !.vectors = s.vectors \o vectors,
              !.metadatas = s.metadatas \o metadatas]

\* add with FAISS (rag.py:118-125): rows are normalised, then index.add
AddFaiss(s, vectors, metadatas) ==
    [s EXCEPT !.hasIndex = TRUE,
              !.index = s.index \o MapSeq(Normalize, vectors),
              !.metadatas = s.metadatas \o metadatas]

\* The store after add's two appends; add then calls _save.
AddMem(s, vectors, metadatas) ==
    IF ~HAS_FAISS THEN AddNoFaiss(s, vectors, metadatas)
    ELSE AddFaiss(s, vectors, metadatas)

\* How the two artifacts of a directory look to a loader of this build.
ArtifactState(f) ==
    LET v == VectorFile(f)
    IN  IF ~Exists(v) \/ ~Exists(f.meta) THEN "missing"
        ELSE IF v.st # "ok" \/ f.meta.st # "ok" THEN "unreadable"
        ELSE IF Len(v.data) # Len(f.meta.data) THEN "mismatch"
        ELSE "consistent"

---------------------------------------------------------------------------
(* FaissStore.search: rag.py:128-158 *)

Min(a, b) == IF a < b THEN a ELSE b

\* (RankedOrders_Ascending: the argsort without its reversal.)
\* Every order of the positions S by non-increasing score. Neither
\* np.argsort (default kind, not stable) nor the FAISS heap fixes the order
\* of equal scores, so each such order is a possible outcome.
RECURSIVE RankedOrders_Ascending(_, _)
RankedOrders_Ascending(S, score) ==
    IF S = {} THEN {<<>>}
    ELSE LET low == {i \in S : \A j \in S : score[i] <= score[j]}
         IN  UNION {{<<i>> \o rest : rest \in RankedOrders_Ascending(S \ {i}, score)} :
                       i \in low}

RECURSIVE RankedOrders(_, _)
RankedOrders(S, score) ==
    IF S = {} THEN {<<>>}
    ELSE LET top == {i \in S : \A j \in S : score[i] >= score[j]}
         IN  UNION {{<<i>> \o rest : rest \in RankedOrders(S \ {i}, score)} : i \in top}

\* for idx in ...: if 0 <= idx < len(self.metadatas): copy, attach the score
RECURSIVE Hits(_, _, _)
Hits(order, score, metadatas) ==
    IF order = <<>> THEN <<>>
    ELSE LET i == Head(order)
             rest == Hits(Tail(order), score, metadatas)
         IN  IF i <= Len(metadatas)
             THEN <<[rec |-> metadatas[i], score |-> score[i], idx |-> i]>> \o rest
             ELSE rest

Scores(vectors, query) ==
    [i \in 1..Len(vectors) |-> Dot2(vectors[i], Normalize(query))]

\* search without FAISS (rag.py:130-146): the slice [:k] of the reversed
\* argsort
SearchNoFaiss(s, query, k) ==
    IF s.vectors = <<>> THEN {[raised |-> FALSE, res |-> <<>>]}
    ELSE LET score == Scores(s.vectors, query)
         IN  {[raised |-> FALSE, res |-> Hits(Prefix(o, k), score, s.metadatas)] :
                 o \in RankedOrders(1..Len(s.vectors), score)}

\* search with FAISS (rag.py:148-158). index.search(q, k) with k < 0
\* raises; with k = 0 it raises (the wrapper asserts k > 0) or, in releases
\* without that assertion, returns no rows.
SearchFaiss(s, query, k) ==
    IF ~s.hasIndex \/ Len(s.index) = 0 THEN {[raised |-> FALSE, res |-> <<>>]}
    ELSE IF Min(k, Len(s.index)) < 0 THEN {[raised |-> TRUE, res |-> <<>>]}
    ELSE IF Min(k, Len(s.index)) = 0
    THEN {[raised |-> TRUE, res |-> <<>>], [raised |-> FALSE, res |-> <<>>]}
    ELSE LET score == Scores(s.index, query)
         IN  {[raised |-> FALSE,
               res |-> Hits(Prefix(o, Min(k, Len(s.index))), score, s.metadatas)] :
                 o \in RankedOrders(1..Len(s.index), score)}

search(s, query, k) ==
    IF ~HAS_FAISS THEN SearchNoFaiss(s, query, k) ELSE SearchFaiss(s, query, k)

\* A result that is the stored dict itself: the score lands in the store.
StoredAfterHit_Aliased(rec, score) ==
    [f \in DOMAIN rec \cup {"score"} |-> IF f = "score" THEN score ELSE rec[f]]

\* result = self.metadatas[idx].copy(); result['score'] = ... (rag.py:143-144,
\* 155-156): what the store holds at idx afterwards. The score is set on
\* the copy.
StoredAfterHit(rec, score) == rec

\* The store after a search that returned the hits res: nothing but the
\* records is touched (the vectors are read into new arrays, rag.py:133,
\* 135, 150).
AfterSearch(s, res) ==
    [s EXCEPT !.metadatas =
        [i \in 1..Len(s.metadatas) |->
            IF \E j \in 1..Len(res) : res[j].idx = i
            THEN LET j == CHOOSE j \in 1..Len(res) : res[j].idx = i
                 IN  StoredAfterHit(s.metadatas[i], res[j].score)
            ELSE s.metadatas[i]]]

---------------------------------------------------------------------------
(* Embedding model: rag.py:16-33 *)

\* _get_embedding_model(): the globals afterwards and whether it raised.
\* Only ImportError is caught; a model that fails to load raises.
GetEmbeddingModel(model, useReal) ==
    IF ~model /\ mlEnv
    THEN CASE mlDep = "not_installed" -> [model |-> FALSE, useReal |-> FALSE, raised |-> FALSE]
           [] mlDep = "load_fails" -> [model |-> model, useReal |-> useReal, raised |-> TRUE]
           [] OTHER -> [model |-> TRUE, useReal |-> TRUE, raised |-> FALSE]
    ELSE [model |-> model, useReal |-> useReal, raised |-> FALSE]

\* hash(text) of a str: a function of the characters and of the salt the
\* interpreter draws at start-up (PYTHONHASHSEED is not set by the code).
StrHash(text) == Len(text) + hashSeed

\* The pseudo-embedding (rag.py:175-176): normal(0, 1) draws seeded by
\* hash(text), so a vector whose length is far from 1.
DummyEmbedding(text) == Vec(StrHash(text) % 6, 2)

\* model.encode(text) raises: with the dependency "encode_fails", on some
\* of the texts.
EncodeRaises(text) == mlDep = "encode_fails" /\ text \in {S_notes}

\* model.encode(text) (rag.py:169): all-MiniLM-L6-v2 returns unit vectors
ModelEncode(text) == Vec(Len(text) % 6, 1)

\* get_embedding(text) (rag.py:164-176): the vector, the provider it
\* came from, the globals afterwards, and whether the call raised. A failure inside encode is
\* caught (rag.py:171); one inside _get_embedding_model is not.
GetEmbedding(text, model, useReal) ==
    LET m == GetEmbeddingModel(model, useReal)
        real == m.useReal /\ m.model /\ ~EncodeRaises(text)
    IN  [model |-> m.model, useReal |-> m.useReal, raised |-> m.raised,
         vec |-> IF real THEN ModelEncode(text) ELSE DummyEmbedding(text),
         by |-> IF real THEN "model" ELSE "fallback"]

---------------------------------------------------------------------------
(* upsert_documents and search_similar_snippets: rag.py:195-240 *)

\* the docs the loop of rag.py:202-207 keeps
Qualifying(docs) == SelectSeq(docs, LAMBDA d : ~IsBlankText(d.text))

AudioExts ==
    {<<".", "w", "e", "b", "m">>, <<".", "w", "a", "v">>, <<".", "m", "p", "3">>,
     <<".", "m", "4", "a">>, <<".", "o", "g", "g">>}

PlaceholderMarker == <<"p", "l", "a", "c", "e", "h", "o", "l", "d", "e", "r">>

\* t[:1200] (rag.py:236)
SnippetChars == 1200

\* A filter that lets every candidate through.
Filtered_Nothing(rec) == FALSE

\* the three skips of rag.py:224-230
Filtered(rec) ==
    LET t == OrEmpty(rec.text)
        src == StrLower(OrEmpty(rec.source))
    IN  \/ StrStrip(t) = <<>>
        \/ \E ext \in AudioExts : EndsWith(src, ext)
        \/ Contains(StrLower(t), PlaceholderMarker)

\* A threshold applied whatever the provider is.
BelowThreshold_AnyProvider(r, useReal) == 10 * r.score < 6

\* USE_REAL_EMBEDDINGS and score < 0.3 (rag.py:233); scores are kept doubled
BelowThreshold(r, useReal) == useReal /\ 10 * r.score < 6

\* the loop of rag.py:219-238 over the results that are left
RECURSIVE Snippets(_, _, _, _)
Snippets(results, k, useReal, snippets) ==
    IF results = <<>> THEN snippets
    ELSE LET r == Head(results)
         IN  IF Filtered(r.rec) \/ BelowThreshold(r, useReal)
             THEN Snippets(Tail(results), k, useReal, snippets)
             ELSE LET more == Append(snippets,
                                     [text |-> Prefix(OrEmpty(r.rec.text), SnippetChars),
                                      from |-> r])
                  IN  IF Len(more) >= k THEN more
                      ELSE Snippets(Tail(results), k, useReal, more)

\* search_similar_snippets(index, query_text, k) on store s (rag.py:213-240):
\* every possible outcome, with the globals and the store afterwards. Each
\* snippet is kept together with the search result it was cut from.
search_similar_snippets(s, query_text, k, model, useReal) ==
    LET e == GetEmbedding(query_text, model, useReal)
    IN  IF e.raised
        THEN {[raised |-> TRUE, res |-> <<>>, model |-> e.model, useReal |-> e.useReal,
               store |-> s]}
        ELSE {[raised |-> out.raised,
               res |-> IF out.raised THEN <<>> ELSE Snippets(out.res, k, e.useReal, <<>>),
               model |-> e.model, useReal |-> e.useReal,
               store |-> AfterSearch(s, out.res)] :
                 out \in search(s, e.vec, k * 2)}

---------------------------------------------------------------------------
(* Initial state: a fresh process over any contents of directory d1 *)

\* the first n entries of an alternating sequence
InitVecSeq(n) == [i \in 1..n |-> IF i % 2 = 1 THEN Vec(0, 1) ELSE Vec(1, 1)]
InitRecSeq(n) ==
    [i \in 1..n |-> IF i % 2 = 1 THEN Doc(PyStr(S_Fma), PyStr(S_physics_pdf), PyNone)
                    ELSE Doc(PyStr(S_notes), PyStr(S_x_txt), PyStr(S_s1))]

InitVecFiles == {Absent, Corrupt} \cup {Holding(InitVecSeq(n)) : n \in 0..MaxInitLen}
InitMetaFiles == {Absent, Corrupt} \cup {Holding(JsonDump(InitRecSeq(n))) : n \in 0..MaxInitLen}

InitDir(faiss, v, m) ==
    [index |-> IF faiss THEN v ELSE Absent,
     npy |-> IF faiss THEN Absent ELSE v,
     meta |-> m]

Threads == 1..NumThreads

\* A request thread: where it stands, the handle it holds (the result of
\* its last get_or_create_index), the store it has constructed, the
\* arguments of its add, and the number of vectors its search has read.
IdleThread ==
    [pc |-> "idle", store |-> NoStore, newId |-> NoStore,
     vectors |-> <<>>, metadatas |-> <<>>, seenVecs |-> 0]

NoResult ==
    [op |-> "init", dir |-> "d1", store |-> NoStore, loaded |-> FALSE,
     art |-> "n/a", raised |-> FALSE, res |-> <<>>, k |-> 0, arg |-> <<>>]

Init ==
    /\ HAS_FAISS \in BOOLEAN
    /\ mlEnv \in BOOLEAN
    /\ mlDep \in IF mlEnv THEN {"ok", "not_installed", "load_fails"} ELSE {"ok"}
    /\ hashSeed = 0
    /\ detached = [i \in StoreIds |-> NotDetached]
    /\ EMBEDDING_MODEL = FALSE
    /\ USE_REAL_EMBEDDINGS = FALSE
    /\ \E v \in InitVecFiles, m \in InitMetaFiles :
          disk = [d \in Dirs |-> IF d = "d1" THEN InitDir(HAS_FAISS, v, m) ELSE EmptyDir]
    /\ INDEX_STATE = [store |-> NoStore, dir |-> "None"]
    /\ stores = [i \in StoreIds |-> NullStore]
    /\ adds = 0
    /\ last = NoResult
    /\ threads = [t \in Threads |-> IdleThread]

---------------------------------------------------------------------------
(* Operations, each run to completion *)

Alive == {i \in StoreIds : stores[i].alive}
FreshId == Cardinality(Alive) + 1

\* Arguments of add: two well-formed batches (what upsert_documents
\* passes) and two with a vector or a record too many.
AddInputs ==
    {[vectors |-> <<Vec(0, 2)>>, metadatas |-> <<InitRecSeq(2)[2]>>],
     [vectors |-> <<Vec(1, 1)>>, metadatas |-> <<InitRecSeq(1)[1]>>],
     [vectors |-> <<Vec(1, 1)>>, metadatas |-> <<>>],
     [vectors |-> <<>>, metadatas |-> <<InitRecSeq(1)[1]>>]}

\* A handle test that never finds the cached store.
IsUninitialized_Always(st) == TRUE

\* if INDEX_STATE["store"] is None (rag.py:181)
IsUninitialized(st) == st.store = NoStore

\* get_or_create_index(index_dir): rag.py:179-192
GetOrCreateIndex(d) ==
    IF IsUninitialized(INDEX_STATE)
    THEN /\ FreshId \in StoreIds
         /\ LET r == FaissStoreInit(d, disk)
                m == GetEmbeddingModel(EMBEDDING_MODEL, USE_REAL_EMBEDDINGS)
            IN  /\ stores' = [stores EXCEPT ![FreshId] = r.store]
                /\ disk' = r.disk
                /\ INDEX_STATE' = [store |-> FreshId, dir |-> d]
                /\ EMBEDDING_MODEL' = m.model
                /\ USE_REAL_EMBEDDINGS' = m.useReal
                /\ last' = [NoResult EXCEPT !.op = "get_or_create", !.dir = d,
                                !.store = IF m.raised THEN NoStore ELSE FreshId,
                                !.loaded = TRUE, !.art = ArtifactState(disk[d]),
                                !.raised = m.raised]
         /\ UNCHANGED <<envVars, adds, threads>>
    ELSE /\ last' = [NoResult EXCEPT !.op = "get_or_create", !.dir = d,
                         !.store = INDEX_STATE.store,
                         !.art = ArtifactState(disk[d])]
         /\ UNCHANGED <<envVars, EMBEDDING_MODEL, USE_REAL_EMBEDDINGS, disk,
                        INDEX_STATE, stores, adds, threads>>

\* FaissStore.add (rag.py:108-126) on the store the caller has just got
\* from get_or_create_index (views.py:396-397, main.py:174-175)
Add(id, vectors, metadatas) ==
    /\ id \in Alive
    /\ id = INDEX_STATE.store
    /\ adds < MaxAdds
    /\ LET s == AddMem(stores[id], vectors, metadatas)
       IN  /\ stores' = [stores EXCEPT ![id] = s]
           /\ disk' = _save(s, disk)
    /\ adds' = adds + 1
    /\ last' = [NoResult EXCEPT !.op = "add", !.store = id, !.dir = stores[id].dir]
    /\ UNCHANGED <<envVars, EMBEDDING_MODEL, USE_REAL_EMBEDDINGS, INDEX_STATE, threads>>

\* The operations that change nothing but `last` (and, for the snippets,
\* the lazily loaded model). One that followed
\* another of them would start from the very same store, so they are
\* taken from the states the other operations leave: the same states are
\* reached with fewer repeated steps.
ReadOnlyOps == {"search", "snippets"}

\* FaissStore.search (rag.py:128-158) on the current handle
Search(id, query, k) ==
    /\ id \in Alive
    /\ last.op \notin ReadOnlyOps
    /\ id = INDEX_STATE.store
    /\ \E out \in search(stores[id], query, k) :
          /\ stores' = [stores EXCEPT ![id] = AfterSearch(@, out.res)]
          /\ last' = [NoResult EXCEPT !.op = "search", !.store = id,
                          !.dir = stores[id].dir, !.raised = out.raised,
                          !.res = out.res, !.k = k, !.arg = query]
    /\ UNCHANGED <<envVars, EMBEDDING_MODEL, USE_REAL_EMBEDDINGS, disk, INDEX_STATE,
                   adds, threads>>

\* os.remove of faiss.index and metadatas.json (rag.py:246-251)
RemoveArtifacts(dk, d) == [dk EXCEPT ![d].index = Absent, ![d].meta = Absent]

\* A store no reference is left to: its identity stays taken, its
\* contents are gone.
Dropped(s) == [NewStore(s.dir) EXCEPT !.alive = TRUE]

\* clear_index(index_dir): rag.py:243-255. With the operations run one at
\* a time INDEX_STATE holds the only reference to the store (each request
\* fetches the handle anew), so the reset lets go of the object.
ClearIndex(d) ==
    /\ disk' = RemoveArtifacts(disk, d)
    /\ INDEX_STATE' = [INDEX_STATE EXCEPT !.store = NoStore]
    /\ stores' = [i \in StoreIds |->
                    IF i = INDEX_STATE.store THEN Dropped(stores[i]) ELSE stores[i]]
    /\ last' = [NoResult EXCEPT !.op = "clear", !.dir = d]
    /\ UNCHANGED <<envVars, EMBEDDING_MODEL, USE_REAL_EMBEDDINGS, adds, threads>>

Next ==
    \/ \E d \in Dirs : GetOrCreateIndex(d)
    \/ \E id \in StoreIds, in \in AddInputs : Add(id, in.vectors, in.metadatas)
    \/ \E d \in Dirs : ClearIndex(d)

Spec == Init /\ [][Next]_vars

---------------------------------------------------------------------------
(* SpecSearch: one process that fetches the handle of INDEX_DIR, fills the *)
(* store through upsert_documents or add, and searches it.                 *)

\* Arguments of upsert_documents.
UpsertInputs ==
    {<<>>,
     <<D_blank, D_none>>,
     <<D_phys, D_blank, D_ph>>,
     <<D_notes>>,
     <<D_audio>>}

\* Queries: two that are the text of an ingested doc, and one whose
\* embedding is close to one of the doc texts and far from the others.
QueryTexts == {S_Fma, S_notes, S_why}
SearchKs == (0 - 1)..MaxK

\* upsert_documents(index, docs): rag.py:195-210
Upsert(id, docs) ==
    /\ id \in Alive
    /\ id = INDEX_STATE.store
    /\ LET metas == Qualifying(docs)
           e == GetEmbedding(<<>>, EMBEDDING_MODEL, USE_REAL_EMBEDDINGS)
           vectors == [i \in 1..Len(metas) |->
                          GetEmbedding(metas[i].text.s, e.model, e.useReal).vec]
           done == [NoResult EXCEPT !.op = "upsert", !.store = id,
                                    !.dir = stores[id].dir, !.arg = docs]
       IN  IF metas = <<>>
           THEN /\ last' = done
                /\ UNCHANGED <<EMBEDDING_MODEL, USE_REAL_EMBEDDINGS, disk, stores, adds>>
           ELSE IF e.raised
           THEN /\ last' = [done EXCEPT !.raised = TRUE]
                /\ UNCHANGED <<EMBEDDING_MODEL, USE_REAL_EMBEDDINGS, disk, stores, adds>>
           ELSE /\ adds < MaxAdds
                /\ Len(stores[id].metadatas) + Len(metas) <= MaxLen
                /\ LET s == AddMem(stores[id], vectors, metas)
                   IN  /\ stores' = [stores EXCEPT ![id] = s]
                       /\ disk' = _save(s, disk)
                /\ adds' = adds + 1
                /\ EMBEDDING_MODEL' = e.model
                /\ USE_REAL_EMBEDDINGS' = e.useReal
                /\ last' = done
    /\ UNCHANGED <<envVars, INDEX_STATE, threads>>

\* search_similar_snippets(index, query_text, k) on the current handle
SearchSimilarSnippets(id, query_text, k) ==
    /\ id \in Alive
    /\ last.op \notin ReadOnlyOps
    /\ id = INDEX_STATE.store
    /\ \E out \in search_similar_snippets(stores[id], query_text, k,
                                          EMBEDDING_MODEL, USE_REAL_EMBEDDINGS) :
          /\ EMBEDDING_MODEL' = out.model
          /\ USE_REAL_EMBEDDINGS' = out.useReal
          /\ stores' = [stores EXCEPT ![id] = out.store]
          /\ last' = [NoResult EXCEPT !.op = "snippets", !.store = id,
                          !.dir = stores[id].dir, !.k = k, !.arg = query_text,
                          !.raised = out.raised, !.res = out.res]
    /\ UNCHANGED <<envVars, disk, INDEX_STATE, adds, threads>>

InitSearch ==
    /\ HAS_FAISS \in BOOLEAN
    /\ mlEnv \in BOOLEAN
    /\ mlDep \in IF mlEnv THEN {"ok", "not_installed", "load_fails", "encode_fails"}
                 ELSE {"ok"}
    /\ hashSeed = 0
    /\ detached = [i \in StoreIds |-> NotDetached]
    /\ EMBEDDING_MODEL = FALSE
    /\ USE_REAL_EMBEDDINGS = FALSE
    /\ disk = [d \in Dirs |-> EmptyDir]
    /\ INDEX_STATE = [store |-> NoStore, dir |-> "None"]
    /\ stores = [i \in StoreIds |-> NullStore]
    /\ adds = 0
    /\ last = NoResult
    /\ threads = [t \in Threads |-> IdleThread]

NextSearch ==
    \/ GetOrCreateIndex(INDEX_DIR)
    \/ \E id \in StoreIds, in \in AddInputs : Add(id, in.vectors, in.metadatas)
    \/ \E id \in StoreIds, docs \in UpsertInputs : Upsert(id, docs)
    \/ \E id \in StoreIds, query \in Vecs, k \in SearchKs : Search(id, query, k)
    \/ \E id \in StoreIds, text \in QueryTexts, k \in SearchKs :
          SearchSimilarSnippets(id, text, k)

SpecSearch == InitSearch /\ [][NextSearch]_vars

---------------------------------------------------------------------------
(* Properties of the life cycle (Spec) *)

IsEmptyStore(s) == NumVectors(s) = 0 /\ s.metadatas = <<>>

\* The store a fresh process would construct from the directory of s.
Reloaded(s) == FaissStoreInit(s.dir, disk).store

BadArtifacts == {"missing", "unreadable"}

\* C1: in every reachable state every store holds as many vectors as
\* metadata records.
C1_CountsAgree ==
    \A id \in Alive : NumVectors(stores[id]) = Len(stores[id].metadatas)

C5_MismatchLoadsEmpty ==
    (last.op = "get_or_create" /\ last.loaded /\ last.art = "mismatch")
        => IsEmptyStore(stores[INDEX_STATE.store])

\* The store takes a well-formed add and then answers every search with
\* k >= 1 without raising and with at least one hit.
Functional(s) ==
    \A in \in {i \in AddInputs : Len(i.vectors) = Len(i.metadatas)} :
        \A query \in Vecs, k \in 1..MaxK :
            \A out \in search(AddMem(s, in.vectors, in.metadatas), query, k) :
                ~out.raised /\ out.res # <<>>

\* C6: when an artifact of the directory is missing or unreadable,
\* get_or_create_index does not raise and returns an empty store on which
\* add and search then succeed.
C6_RecoversFromBadArtifacts ==
    (last.op = "get_or_create" /\ last.art \in BadArtifacts)
        => /\ ~last.raised
           /\ last.store # NoStore
           /\ IsEmptyStore(stores[last.store])
           /\ Functional(stores[last.store])

\* C7: after a load that recovered from missing or unreadable artifacts,
\* both artifacts exist on disk and describe an empty index.
C7_RecoveryPersistsEmpty ==
    (last.op = "get_or_create" /\ last.loaded /\ last.art \in BadArtifacts)
        => /\ VectorFile(disk[last.dir]) = Holding(<<>>)
           /\ disk[last.dir].meta = Holding(<<>>)

\* C8: while the handle is initialised, get_or_create_index returns the
\* cached store, constructs nothing and leaves the disk alone; and only
\* clear_index takes an initialised handle away.
C8_CachedHandle ==
    [][/\ (INDEX_STATE.store # NoStore /\ last'.op = "get_or_create")
            => /\ last'.store = INDEX_STATE.store
               /\ ~last'.loaded
               /\ UNCHANGED <<disk, stores, INDEX_STATE>>
       /\ (INDEX_STATE.store # NoStore /\ INDEX_STATE'.store # INDEX_STATE.store)
            => (last'.op = "clear" /\ INDEX_STATE'.store = NoStore)]_vars

C8_Witness ==
    /\ last.op = "get_or_create"
    /\ ~last.loaded
    /\ last.store = INDEX_STATE.store
    /\ last.store # NoStore
    /\ adds > 0

\* C9: the store returned by get_or_create_index(d) is bound to d.
C9_BoundToRequestedDir ==
    (last.op = "get_or_create" /\ last.store # NoStore)
        => stores[last.store].dir = last.dir

\* C10: after clear_index(d) neither the vector artifact nor the manifest
\* of d exists.
C10_ClearRemovesArtifacts ==
    last.op = "clear"
        => ~Exists(VectorFile(disk[last.dir])) /\ ~Exists(disk[last.dir].meta)

\* C11: when clear_index(d) has just returned, a get_or_create_index(d)
\* that comes next does not raise and returns a store constructed by that
\* call, holding no vectors and no records.
C11_ClearThenRebuildEmpty ==
    [][(last.op = "clear" /\ last'.op = "get_or_create" /\ last'.dir = last.dir)
          => /\ ~last'.raised
             /\ last'.loaded
             /\ last'.store # NoStore
             /\ ~stores[last'.store].alive
             /\ IsEmptyStore(stores'[last'.store])]_vars

\* C18: an add on a store that holds as many vectors as records leaves it
\* holding as many vectors as records, whatever the lengths of its two
\* arguments (an unpaired vector or record is skipped).
C18_MismatchedAddSkipsUnpaired ==
    [][last'.op = "add"
          => (NumVectors(stores[last'.store]) = Len(stores[last'.store].metadatas)
                => NumVectors(stores'[last'.store]) = Len(stores'[last'.store].metadatas))]_vars

---------------------------------------------------------------------------
(* Properties of search and ingestion (SpecSearch) *)

\* The store the last operation ran on, and the positions of it that hold
\* both a vector and a record.
Searched == stores[last.store]
Paired(s) == 1..Min(NumVectors(s), Len(s.metadatas))
ReturnedIdx == {last.res[j].idx : j \in 1..Len(last.res)}

\* C12: a search with k >= 1 does not raise and returns exactly
\* min(k, stored count) results, the stored count being the number of
\* vectors or the number of records of the store.
C12_ResultCount ==
    (last.op = "search" /\ last.k >= 1)
        => /\ ~last.raised
           /\ \/ Len(last.res) = Min(last.k, NumVectors(Searched))
              \/ Len(last.res) = Min(last.k, Len(Searched.metadatas))

\* C13: the results of a search come in non-increasing score, each is a
\* stored record with the score of its vector against the query, and no
\* stored record left out scores strictly higher than a returned one.
C13_TopKByScore ==
    (last.op = "search" /\ ~last.raised)
        => LET score == Scores(StoredVectors(Searched), last.arg)
           IN  /\ \A j \in 1..Len(last.res) :
                     /\ last.res[j].idx \in Paired(Searched)
                     /\ last.res[j].rec = Searched.metadatas[last.res[j].idx]
                     /\ last.res[j].score = score[last.res[j].idx]
               /\ \A i, j \in 1..Len(last.res) :
                     i < j => /\ last.res[i].score >= last.res[j].score
                              /\ last.res[i].idx # last.res[j].idx
               /\ \A i \in Paired(Searched) \ ReturnedIdx :
                     \A j \in 1..Len(last.res) : score[i] <= last.res[j].score

C13_Witness ==
    /\ last.op = "search"
    /\ ~last.raised
    /\ last.k = 1
    /\ Len(last.res) = 1
    /\ NumVectors(Searched) = 3
    /\ Len(Searched.metadatas) = 3
    /\ \E i \in Paired(Searched) \ ReturnedIdx :
          Scores(StoredVectors(Searched), last.arg)[i] < last.res[1].score

\* C14: of two stored records with equal score the one inserted earlier
\* comes first in the result, and is the one kept at the cut-off.
C14_TiesByInsertionOrder ==
    (last.op = "search" /\ ~last.raised)
        => LET score == Scores(StoredVectors(Searched), last.arg)
           IN  /\ \A i, j \in 1..Len(last.res) :
                     (i < j /\ last.res[i].score = last.res[j].score)
                        => last.res[i].idx < last.res[j].idx
               /\ \A i \in Paired(Searched) \ ReturnedIdx :
                     \A j \in 1..Len(last.res) :
                        score[i] = last.res[j].score => last.res[j].idx < i

\* C15: every vector a store holds has length 1, and every score a search
\* returns lies in [-1, 1] (scores are kept doubled).
C15_StoredVectorsAreUnit ==
    /\ \A id \in Alive :
          \A i \in 1..NumVectors(stores[id]) : StoredVectors(stores[id])[i].mag = 1
    /\ last.op = "search"
          => \A j \in 1..Len(last.res) : last.res[j].score \in (0 - 2)..2

\* The form in which this build holds an inserted vector v.
HeldAs(v) == IF HAS_FAISS THEN Normalize(v) ELSE v

\* C16: a search with k >= 1 whose query is the pre-normalisation form of
\* a stored vector does not raise and returns that vector's record with
\* score 1.0 (doubled: 2), and no result scores higher.
C16_SelfQueryIsTopHit ==
    (last.op = "search" /\ last.k >= 1)
        => /\ ~last.raised
           /\ \A i \in Paired(Searched) :
                 StoredVectors(Searched)[i] = HeldAs(last.arg)
                    => \E j \in 1..Len(last.res) :
                          /\ last.res[j].rec = Searched.metadatas[i]
                          /\ last.res[j].score = 2
                          /\ \A h \in 1..Len(last.res) : last.res[h].score <= 2

\* C17: search and search_similar_snippets called with k <= 0 do not raise
\* and return what the same call with k = 1 can return.
C17_NonPositiveKClamped ==
    /\ (last.op = "search" /\ last.k <= 0)
          => /\ ~last.raised
             /\ [raised |-> FALSE, res |-> last.res] \in search(Searched, last.arg, 1)
    /\ (last.op = "snippets" /\ last.k <= 0)
          => /\ ~last.raised
             /\ \E out \in search_similar_snippets(Searched, last.arg, 1,
                                                   EMBEDDING_MODEL, USE_REAL_EMBEDDINGS) :
                   ~out.raised /\ out.res = last.res

\* The docs of a batch whose text is a non-empty str after trimming.
NonBlankDocs(docs) ==
    SelectSeq(docs, LAMBDA d : d.text.t = "str" /\ StrStrip(d.text.s) # <<>>)

\* C19: upsert_documents does not raise and appends exactly the docs with
\* non-blank text, in input order, one vector for each; with no such doc
\* the store and the directory stay as they were.
C19_UpsertAppendsNonBlank ==
    [][last'.op = "upsert"
          => LET kept == NonBlankDocs(last'.arg)
                 before == stores[last'.store]
                 after == stores'[last'.store]
             IN  /\ ~last'.raised
                 /\ after.metadatas = before.metadatas \o kept
                 /\ NumVectors(after) = NumVectors(before) + Len(kept)
                 /\ kept = <<>> => (stores' = stores /\ disk' = disk)]_vars

\* What the claim excludes from the snippets.
BlankText(rec) == rec.text.t # "str" \/ StrStrip(rec.text.s) = <<>>
AudioSource(rec) ==
    /\ rec.source.t = "str"
    /\ \E ext \in AudioExts : EndsWith(StrLower(rec.source.s), ext)
PlaceholderText(rec) ==
    rec.text.t = "str" /\ Contains(StrLower(rec.text.s), PlaceholderMarker)
Unsuitable(rec) == BlankText(rec) \/ AudioSource(rec) \/ PlaceholderText(rec)

C30_AppendOnlyReadOnly ==
    [][/\ last'.op \in {"add", "upsert"}
             => \A id \in Alive :
                   /\ \A i \in 1..NumVectors(stores[id]) :
                         /\ i <= NumVectors(stores'[id])
                         /\ StoredVectors(stores'[id])[i] = StoredVectors(stores[id])[i]
                   /\ \A i \in 1..Len(stores[id].metadatas) :
                         /\ i <= Len(stores'[id].metadatas)
                         /\ stores'[id].metadatas[i] = stores[id].metadatas[i]
       /\ last'.op \in {"search", "snippets"}
             => stores' = stores /\ disk' = disk]_vars

\* A search has returned scored records of a store that holds two or more
\* records, added by two calls, and whose artifacts are on disk.
C30_Witness ==
    /\ last.op \in {"search", "snippets"}
    /\ ~last.raised
    /\ Len(last.res) >= 1
    /\ adds >= 2
    /\ Len(Searched.metadatas) >= 2
    /\ NumVectors(Searched) >= 2
    /\ ArtifactState(disk[Searched.dir]) = "consistent"

\* The candidate lists the last search_similar_snippets call can have
\* walked: what search returns for the embedded query text and twice k.
Candidates ==
    {out.res : out \in
        {o \in search(Searched,
                      GetEmbedding(last.arg, EMBEDDING_MODEL, USE_REAL_EMBEDDINGS).vec,
                      last.k * 2) : ~o.raised}}

\* A score under 0.3 (scores are kept doubled).
TooLow(r) == 10 * r.score < 6

\* The snippet cut from search result r.
SnippetOf(r) == [text |-> Prefix(OrEmpty(r.rec.text), SnippetChars), from |-> r]

\* The first n entries of q, all of q when it has fewer.
FirstN(q, n) == SubSeq(q, 1, Min(n, Len(q)))

\* C21: with the real provider active (USE_REAL_EMBEDDINGS) no snippet is
\* cut from a candidate scoring under 0.3; with the fallback provider the
\* snippets are the first candidates that pass the text and source rules,
\* whatever their scores (the loop stops at k snippets, at 1 for k < 1).
C21_ThresholdOnlyWithRealProvider ==
    (last.op = "snippets" /\ ~last.raised)
        => /\ USE_REAL_EMBEDDINGS
                 => \A j \in 1..Len(last.res) : ~TooLow(last.res[j].from)
           /\ ~USE_REAL_EMBEDDINGS
                 => \E c \in Candidates :
                       last.res = MapSeq(SnippetOf,
                                         FirstN(SelectSeq(c, LAMBDA r : ~Unsuitable(r.rec)),
                                                IF last.k < 1 THEN 1 ELSE last.k))

\* With the real provider a snippet was returned while a suitable record
\* among the candidates, scoring under 0.3, was left out.
C21_Witness ==
    /\ last.op = "snippets"
    /\ ~last.raised
    /\ USE_REAL_EMBEDDINGS
    /\ Len(last.res) >= 1
    /\ \E c \in Candidates :
          \E i \in 1..Len(c) :
             /\ ~Unsuitable(c[i].rec)
             /\ TooLow(c[i])
             /\ \A j \in 1..Len(last.res) : last.res[j].from.idx # c[i].idx

\* C22: for k >= 1 search_similar_snippets does not raise and returns, in
\* rank order, the texts cut to 1200 characters of the first k surviving
\* candidates among the 2k search results, and fewer when fewer survive.
\* A candidate survives when its record is suitable and its score, with
\* the real provider, is at least 0.3.
C22_FirstKSurvivors ==
    (last.op = "snippets" /\ last.k >= 1)
        => /\ ~last.raised
           /\ \E c \in Candidates :
                 last.res =
                    MapSeq(SnippetOf,
                           FirstN(SelectSeq(c, LAMBDA r :
                                                  /\ ~Unsuitable(r.rec)
                                                  /\ ~(USE_REAL_EMBEDDINGS /\ TooLow(r))),
                                  last.k))

---------------------------------------------------------------------------
(* SpecRuns: the process is restarted between calls; the directory stays.  *)

\* The salts a process can start with.
HashSeeds == {0, 1}

\* get_embedding(text) called on its own (rag.py:164-176)
GetEmbeddingCall(text) ==
    /\ LET e == GetEmbedding(text, EMBEDDING_MODEL, USE_REAL_EMBEDDINGS)
       IN  /\ EMBEDDING_MODEL' = e.model
           /\ USE_REAL_EMBEDDINGS' = e.useReal
           /\ last' = [NoResult EXCEPT !.op = "embed", !.arg = text,
                           !.raised = e.raised,
                           !.res = IF e.raised THEN <<>>
                                   ELSE <<[vec |-> e.vec, by |-> e.by]>>]
    /\ UNCHANGED <<envVars, disk, INDEX_STATE, stores, adds, threads>>

\* The process ends and a new one starts: the module globals are back at
\* their import-time values (rag.py:16-17, 161), every object is gone, a
\* new salt is in force; the files stay. `last` keeps what the previous
\* call returned to its caller.
Restart(seed) ==
    /\ hashSeed' = seed
    /\ EMBEDDING_MODEL' = FALSE
    /\ USE_REAL_EMBEDDINGS' = FALSE
    /\ INDEX_STATE' = [store |-> NoStore, dir |-> "None"]
    /\ stores' = [i \in StoreIds |-> NullStore]
    /\ threads' = [t \in Threads |-> IdleThread]
    /\ UNCHANGED <<HAS_FAISS, mlEnv, mlDep, detached, disk, adds, last>>

InitRuns ==
    /\ HAS_FAISS \in BOOLEAN
    /\ mlEnv \in BOOLEAN
    /\ mlDep \in IF mlEnv THEN {"ok", "not_installed", "load_fails", "encode_fails"}
                 ELSE {"ok"}
    /\ hashSeed \in HashSeeds
    /\ detached = [i \in StoreIds |-> NotDetached]
    /\ EMBEDDING_MODEL = FALSE
    /\ USE_REAL_EMBEDDINGS = FALSE
    /\ disk = [d \in Dirs |-> EmptyDir]
    /\ INDEX_STATE = [store |-> NoStore, dir |-> "None"]
    /\ stores = [i \in StoreIds |-> NullStore]
    /\ adds = 0
    /\ last = NoResult
    /\ threads = [t \in Threads |-> IdleThread]

NextRuns ==
    \/ GetOrCreateIndex(INDEX_DIR)
    \/ \E id \in StoreIds, docs \in UpsertInputs : Upsert(id, docs)
    \/ \E text \in QueryTexts : GetEmbeddingCall(text)
    \/ \E id \in StoreIds, text \in QueryTexts, k \in SearchKs :
          SearchSimilarSnippets(id, text, k)
    \/ \E seed \in HashSeeds : Restart(seed)

SpecRuns == InitRuns /\ [][NextRuns]_vars

\* C23: get_embedding never raises and returns one vector, whatever the
\* text and the state of the model dependency.
C23_GetEmbeddingTotal ==
    last.op = "embed"
        => /\ ~last.raised
           /\ Len(last.res) = 1
           /\ last.res[1].vec \in [dir : 0..5, mag : {1, 2}]

\* C24: two successive get_embedding calls with the same text that are
\* both served by the fallback return the same vector, whether or not
\* the process was restarted between them.
C24_FallbackDeterministic ==
    [][(/\ last.op = "embed" /\ ~last.raised
        /\ last'.op = "embed" /\ ~last'.raised
        /\ last'.arg = last.arg
        /\ last.res[1].by = "fallback"
        /\ last'.res[1].by = "fallback")
          => last'.res[1].vec = last.res[1].vec]_vars

\* C25: the vectors of a store all come from one provider, and so does
\* the query vector of every search_similar_snippets call on it. (In
\* SpecRuns every stored vector was made by upsert_documents from the text
\* of its record, in a process with this same environment, so the provider
\* of a vector is the one get_embedding uses for that text.)
C25_OneProviderPerIndex ==
    \A id \in Alive :
       LET m == stores[id].metadatas
           EmbeddedBy(text) ==
               GetEmbedding(text, EMBEDDING_MODEL, USE_REAL_EMBEDDINGS).by
       IN  /\ \A i, j \in 1..Len(m) :
                 EmbeddedBy(m[i].text.s) = EmbeddedBy(m[j].text.s)
           /\ (last.op = "snippets" /\ ~last.raised /\ last.store = id)
                 => \A i \in 1..Len(m) :
                       EmbeddedBy(m[i].text.s) = EmbeddedBy(last.arg)

---------------------------------------------------------------------------
(* SpecUpload: the upload handlers of main.py and views.py, one request at *)
(* a time. Of a request the model keeps what reaches rag.py; the reply     *)
(* text and the chat history do not touch the index.                       *)

\* the k the handlers pass (views.py:381, main.py:161)
UploadK == 3

DocExts == {<<".", "p", "d", "f">>, <<".", "d", "o", "c", "x">>, <<".", "t", "x", "t">>}

\* filename_lower.endswith((...))
EndsWithAny(s, exts) == \E ext \in exts : EndsWith(s, ext)

\* A test that takes every file for a document.
IsDoc_Always(fl) == TRUE

\* is_doc (views.py:374, main.py:148)
IsDoc(fl) == EndsWithAny(fl, DocExts)

\* is_audio (views.py:373, main.py:147)
IsAudio(fl) == EndsWithAny(fl, AudioExts)

\* The uploads: file name, what the extraction gave (the text read from a
\* document, the OCR text of an image, the transcription of an audio file;
\* None when it failed) and the user's note.
UploadNames ==
    {S_x_txt, <<"N", ".", "P", "D", "F">>, S_Clip_WAV, <<"a", ".", "p", "n", "g">>, <<>>}

\* get_or_create_index(d) (rag.py:179-192) as a function of the memory a
\* request works on (the globals of rag.py, the objects, the files): the
\* memory afterwards, the handle, and whether the call raised.
GocOn(m, d) ==
    IF IsUninitialized(m.INDEX_STATE)
    THEN LET id == Cardinality({i \in StoreIds : m.stores[i].alive}) + 1
             r == FaissStoreInit(d, m.disk)
             e == GetEmbeddingModel(m.model, m.useReal)
         IN  [mem |-> [model |-> e.model, useReal |-> e.useReal, disk |-> r.disk,
                       INDEX_STATE |-> [store |-> id, dir |-> d],
                       stores |-> [i \in StoreIds |->
                                     IF i = id THEN r.store ELSE m.stores[i]]],
              id |-> id, raised |-> e.raised]
    ELSE [mem |-> m, id |-> m.INDEX_STATE.store, raised |-> FALSE]

\* upsert_documents(index, docs) (rag.py:195-210) as a function of the memory
UpsertOn(m, id, docs) ==
    LET metas == Qualifying(docs)
        e == GetEmbedding(<<>>, m.model, m.useReal)
        vectors == [i \in 1..Len(metas) |->
                       GetEmbedding(metas[i].text.s, e.model, e.useReal).vec]
        s == AddMem(m.stores[id], vectors, metas)
    IN  IF metas = <<>> THEN [mem |-> m, raised |-> FALSE, added |-> FALSE]
        ELSE IF e.raised THEN [mem |-> m, raised |-> TRUE, added |-> FALSE]
        ELSE [mem |-> [m EXCEPT !.model = e.model, !.useReal = e.useReal,
                                !.stores = [m.stores EXCEPT ![id] = s],
                                !.disk = _save(s, m.disk)],
              raised |-> FALSE, added |-> TRUE]

\* search_similar_snippets(index, query_text, k) as a function of the memory
SnippetsOn(m, id, query_text, k) ==
    {[mem |-> [m EXCEPT !.model = out.model, !.useReal = out.useReal,
                        !.stores = [m.stores EXCEPT ![id] = out.store]],
      raised |-> out.raised, res |-> out.res] :
        out \in search_similar_snippets(m.stores[id], query_text, k, m.model, m.useReal)}

\* upload_file of views.py (313-443; view = TRUE) and of main.py (122-205;
\* view = FALSE) from the point where the file has been saved: every
\* outcome, with the calls made into rag.py, whether a record was added,
\* and whether the request failed. views.py answers 400 for a document without text
\* and for an unknown extension, and catches what the ingestion raises.
UploadResults(view, name, text, note, m) ==
    LET fl == StrLower(name)
        hasText == ~IsBlankText(text)
        user_text == StrStrip(OrEmpty(text))
        query == IF note.t = "str" /\ note.s # <<>>
                 THEN StrStrip(note.s) \o <<"\n", "\n">> \o user_text
                 ELSE user_text
        doc == Doc(text,
                   PyStr(IF fl = <<>> THEN <<"u", "p", "l", "o", "a", "d">> ELSE fl),
                   PyStr(S_s1))
        CallGoc == [fn |-> "get_or_create_index", arg |-> <<>>]
        CallUpsert == [fn |-> "upsert_documents", arg |-> <<doc>>]
        CallSnippets == [fn |-> "search_similar_snippets", arg |-> query]
        isImage == EndsWithAny(fl, {<<".", "p", "n", "g">>, <<".", "j", "p", "g">>,
                                    <<".", "j", "p", "e", "g">>})
        g == GocOn(m, INDEX_DIR)
        none == [mem |-> m, calls |-> <<>>, added |-> FALSE, failed |-> FALSE]
    IN  IF view /\ IsDoc(fl) /\ OrEmpty(text) = <<>>
        THEN {[none EXCEPT !.failed = TRUE]}
        ELSE IF view /\ ~IsDoc(fl) /\ ~isImage /\ ~IsAudio(fl)
        THEN {[none EXCEPT !.failed = TRUE]}
        ELSE IF IsAudio(fl) /\ hasText
        THEN IF g.raised
             THEN {[mem |-> g.mem, calls |-> <<CallGoc>>, added |-> FALSE,
                    failed |-> TRUE]}
             ELSE {[mem |-> o.mem, calls |-> <<CallGoc, CallSnippets>>,
                    added |-> FALSE, failed |-> o.raised] :
                      o \in SnippetsOn(g.mem, g.id, query, UploadK)}
        ELSE IF IsDoc(fl) /\ hasText
        THEN IF g.raised
             THEN {[mem |-> g.mem, calls |-> <<CallGoc>>, added |-> FALSE,
                    failed |-> ~view]}
             ELSE LET u == UpsertOn(g.mem, g.id, <<doc>>)
                  IN  {[mem |-> u.mem, calls |-> <<CallGoc, CallUpsert>>,
                        added |-> u.added, failed |-> u.raised /\ ~view]}
        ELSE {none}

UploadFile(view, name, text, note) ==
    /\ \E o \in UploadResults(view, name, text, note,
                               [model |-> EMBEDDING_MODEL,
                                useReal |-> USE_REAL_EMBEDDINGS, disk |-> disk,
                                INDEX_STATE |-> INDEX_STATE, stores |-> stores]) :
          /\ o.mem.INDEX_STATE.store \in StoreIds \cup {NoStore}
          /\ o.added => /\ adds < MaxAdds
                         /\ Len(o.mem.stores[o.mem.INDEX_STATE.store].metadatas) <= MaxLen
          /\ EMBEDDING_MODEL' = o.mem.model
          /\ USE_REAL_EMBEDDINGS' = o.mem.useReal
          /\ disk' = o.mem.disk
          /\ INDEX_STATE' = o.mem.INDEX_STATE
          /\ stores' = o.mem.stores
          /\ adds' = IF o.added THEN adds + 1 ELSE adds
          /\ last' = [NoResult EXCEPT !.op = "upload", !.raised = o.failed,
                          !.store = o.mem.INDEX_STATE.store,
                          !.arg = [view |-> view, name |-> name, text |-> text,
                                   note |-> note],
                          !.res = o.calls]
    /\ UNCHANGED <<envVars, threads>>

NextUpload ==
    \E view \in BOOLEAN, name \in UploadNames,
       text \in {PyNone, PyStr(S_blank), PyStr(S_notes)},
       note \in {PyNone, PyStr(S_why)} : UploadFile(view, name, text, note)

SpecUpload == InitSearch /\ [][NextUpload]_vars

\* The store a new process would build from the files of INDEX_DIR.
IndexOnDisk(dk) == FaissStoreInit(INDEX_DIR, dk).store

---------------------------------------------------------------------------
(* SpecStale: callers keep the handle they got from get_or_create_index    *)
(* and go on adding through it, also after a clear_index. Each call runs   *)
(* to completion.                                                          *)

\* The n-th add of a run carries a record and a vector of its own (the
\* session id tells the records apart).
NthRec(n) ==
    Doc(PyStr(S_notes), PyStr(S_x_txt),
        PyStr(<< <<"1", "2", "3", "4", "5", "6", "7", "8", "9">>[n] >>))

\* FaissStore.add (rag.py:108-126) through a handle a caller holds, be it
\* the one INDEX_STATE holds or an earlier one
AddHeld(id) ==
    /\ id \in Alive
    /\ adds < MaxAdds
    /\ LET s == AddMem(stores[id], <<Vec((adds + 1) % 6, 1)>>, <<NthRec(adds + 1)>>)
       IN  /\ stores' = [stores EXCEPT ![id] = s]
           /\ disk' = _save(s, disk)
    /\ adds' = adds + 1
    /\ last' = [NoResult EXCEPT !.op = "add", !.store = id, !.dir = stores[id].dir]
    /\ UNCHANGED <<envVars, EMBEDDING_MODEL, USE_REAL_EMBEDDINGS, INDEX_STATE, threads>>

\* clear_index(index_dir) (rag.py:243-255) while callers hold the handle:
\* the files are removed and INDEX_STATE forgets the store; the object
\* lives on with what it holds.
ClearIndexHeld(d) ==
    /\ disk' = RemoveArtifacts(disk, d)
    /\ INDEX_STATE' = [INDEX_STATE EXCEPT !.store = NoStore]
    /\ detached' = [i \in StoreIds |->
                      IF i = INDEX_STATE.store THEN Len(stores[i].metadatas)
                      ELSE detached[i]]
    /\ last' = [NoResult EXCEPT !.op = "clear", !.dir = d]
    /\ UNCHANGED <<HAS_FAISS, mlEnv, mlDep, hashSeed, EMBEDDING_MODEL,
                   USE_REAL_EMBEDDINGS, stores, adds, threads>>

NextStale ==
    \/ GetOrCreateIndex(INDEX_DIR)
    \/ \E id \in StoreIds : AddHeld(id)
    \/ ClearIndexHeld(INDEX_DIR)

SpecStale == InitSearch /\ [][NextStale]_vars

\* C28: a store built after a clear holds none of the records that the
\* store the clear let go of held at that clear. (Stores are numbered in
\* the order they are built; a later one is built after the clear that
\* detached the earlier one.)
C28_ClearIsFinal ==
    \A s, t \in Alive :
       (s < t /\ detached[s] # NotDetached)
          => \A i \in 1..detached[s] :
                \A j \in 1..Len(stores[t].metadatas) :
                   stores[t].metadatas[j] # stores[s].metadatas[i]

---------------------------------------------------------------------------
(* SpecConc: request threads on the one index directory the views use     *)
(* (views.py:35, main.py:26). A step is one statement of rag.py; nothing  *)
(* in rag.py takes a lock. A search is followed as far as the lengths it  *)
(* reads.                                                                 *)

InitConc ==
    /\ HAS_FAISS \in BOOLEAN
    /\ mlEnv = FALSE
    /\ mlDep = "ok"
    /\ hashSeed = 0
    /\ detached = [i \in StoreIds |-> NotDetached]
    /\ EMBEDDING_MODEL = FALSE
    /\ USE_REAL_EMBEDDINGS = FALSE
    /\ \E f \in {EmptyDir} \cup
               {InitDir(HAS_FAISS, Holding(InitVecSeq(n)), Holding(JsonDump(InitRecSeq(n)))) :
                   n \in 0..MaxInitLen} :
          disk = [d \in Dirs |-> IF d = INDEX_DIR THEN f ELSE EmptyDir]
    /\ INDEX_STATE = [store |-> NoStore, dir |-> "None"]
    /\ stores = [i \in StoreIds |-> NullStore]
    /\ adds = 0
    /\ last = NoResult
    /\ threads = [t \in Threads |-> IdleThread]

AddPcs == {"add_metas", "save_vectors", "save_meta"}
SearchPcs == {"search_metas"}
ClearPcs == {"clear_meta", "clear_reset"}

At(t, pc) == threads[t].pc = pc
Goto(t, pc) == threads' = [threads EXCEPT ![t].pc = pc]

concFrame == <<envVars, EMBEDDING_MODEL, USE_REAL_EMBEDDINGS, last>>

\* rag.py:181
GocCheck(t) ==
    /\ At(t, "idle")
    /\ Goto(t, IF IsUninitialized(INDEX_STATE) THEN "goc_construct" ELSE "goc_return")
    /\ UNCHANGED <<concFrame, disk, INDEX_STATE, stores, adds>>

\* rag.py:182-184, right-hand side: FaissStore(...)
GocConstruct(t) ==
    /\ At(t, "goc_construct")
    /\ FreshId \in StoreIds
    /\ LET r == FaissStoreInit(INDEX_DIR, disk)
       IN  /\ stores' = [stores EXCEPT ![FreshId] = r.store]
           /\ disk' = r.disk
    /\ threads' = [threads EXCEPT ![t].pc = "goc_assign", ![t].newId = FreshId]
    /\ UNCHANGED <<concFrame, INDEX_STATE, adds>>

\* rag.py:184-185: INDEX_STATE["store"] = ...; INDEX_STATE["dir"] = index_dir
GocAssign(t) ==
    /\ At(t, "goc_assign")
    /\ INDEX_STATE' = [store |-> threads[t].newId, dir |-> INDEX_DIR]
    /\ Goto(t, "goc_return")
    /\ UNCHANGED <<concFrame, disk, stores, adds>>

\* rag.py:192: return INDEX_STATE["store"], whatever it holds by now
GocReturn(t) ==
    /\ At(t, "goc_return")
    /\ threads' = [threads EXCEPT ![t].pc = "idle", ![t].store = INDEX_STATE.store,
                                  ![t].newId = NoStore]
    /\ UNCHANGED <<concFrame, disk, INDEX_STATE, stores, adds>>

\* add, first statement (rag.py:111-112 / 123), called as upsert_documents
\* calls it: as many vectors as records
AddVectors(t, vectors, metadatas) ==
    /\ At(t, "idle")
    /\ threads[t].store \in Alive
    /\ adds < MaxAdds
    /\ Len(vectors) = Len(metadatas)
    /\ stores' = [stores EXCEPT ![threads[t].store] = AddMem(@, vectors, <<>>)]
    /\ threads' = [threads EXCEPT ![t].pc = "add_metas", ![t].vectors = vectors,
                                  ![t].metadatas = metadatas]
    /\ adds' = adds + 1
    /\ UNCHANGED <<concFrame, disk, INDEX_STATE>>

\* rag.py:113 / 124: self.metadatas.extend(metadatas)
AddMetas(t) ==
    /\ At(t, "add_metas")
    /\ stores' = [stores EXCEPT ![threads[t].store].metadatas = @ \o threads[t].metadatas]
    /\ Goto(t, "save_vectors")
    /\ UNCHANGED <<concFrame, disk, INDEX_STATE, adds>>

\* _save, first write (rag.py:56 / 66), or its return when index is None
SaveVectors(t) ==
    /\ At(t, "save_vectors")
    /\ LET s == stores[threads[t].store]
       IN  IF ~HAS_FAISS
           THEN disk' = WriteVectorsNoFaiss(s, disk) /\ Goto(t, "save_meta")
           ELSE IF ~s.hasIndex
           THEN /\ disk' = disk
                /\ threads' = [threads EXCEPT ![t].pc = "idle", ![t].vectors = <<>>,
                                              ![t].metadatas = <<>>]
           ELSE disk' = WriteVectorsFaiss(s, disk) /\ Goto(t, "save_meta")
    /\ UNCHANGED <<concFrame, INDEX_STATE, stores, adds>>

\* _save, second write (rag.py:57-58 / 67-68)
SaveMeta(t) ==
    /\ At(t, "save_meta")
    /\ disk' = WriteManifest(stores[threads[t].store], disk)
    /\ threads' = [threads EXCEPT ![t].pc = "idle", ![t].vectors = <<>>,
                                  ![t].metadatas = <<>>]
    /\ UNCHANGED <<concFrame, INDEX_STATE, stores, adds>>

\* search reads the vectors (rag.py:131-137 / 148-151)
SearchVectors(t) ==
    /\ At(t, "idle")
    /\ threads[t].store \in Alive
    /\ threads' = [threads EXCEPT ![t].pc = "search_metas",
                                  ![t].seenVecs = NumVectors(stores[threads[t].store])]
    /\ UNCHANGED <<concFrame, disk, INDEX_STATE, stores, adds>>

\* search reads the records and returns (rag.py:141-146 / 153-158)
SearchMetas(t) ==
    /\ At(t, "search_metas")
    /\ threads' = [threads EXCEPT ![t].pc = "idle", ![t].seenVecs = 0]
    /\ UNCHANGED <<concFrame, disk, INDEX_STATE, stores, adds>>

\* rag.py:248-249
ClearRemoveIndex(t) ==
    /\ At(t, "idle")
    /\ disk' = [disk EXCEPT ![INDEX_DIR].index = Absent]
    /\ Goto(t, "clear_meta")
    /\ UNCHANGED <<concFrame, INDEX_STATE, stores, adds>>

\* rag.py:250-251
ClearRemoveMeta(t) ==
    /\ At(t, "clear_meta")
    /\ disk' = RemoveArtifacts(disk, INDEX_DIR)
    /\ Goto(t, "clear_reset")
    /\ UNCHANGED <<concFrame, INDEX_STATE, stores, adds>>

\* rag.py:255
ClearReset(t) ==
    /\ At(t, "clear_reset")
    /\ INDEX_STATE' = [INDEX_STATE EXCEPT !.store = NoStore]
    /\ Goto(t, "idle")
    /\ UNCHANGED <<concFrame, disk, stores, adds>>

NextConc ==
    \E t \in Threads :
        \/ GocCheck(t)
        \/ GocConstruct(t)
        \/ GocAssign(t)
        \/ GocReturn(t)
        \/ \E in \in AddInputs : AddVectors(t, in.vectors, in.metadatas)
        \/ AddMetas(t)
        \/ SaveVectors(t)
        \/ SaveMeta(t)
        \/ SearchVectors(t)
        \/ SearchMetas(t)
        \/ ClearRemoveIndex(t)
        \/ ClearRemoveMeta(t)
        \/ ClearReset(t)

SpecConc == InitConc /\ [][NextConc]_vars

---------------------------------------------------------------------------
(* Properties under concurrency (SpecConc) *)

InAdd(t) == threads[t].pc \in AddPcs
InSearch(t) == threads[t].pc \in SearchPcs
InClear(t) == threads[t].pc \in ClearPcs

\* C2: a search in flight never finds the vectors and the records of its
\* store at different lengths, and no add or search runs on a store while
\* an add on that store is between its first append and the end of _save.
C2_AddIsAtomic ==
    /\ \A t \in Threads :
          InSearch(t) =>
              NumVectors(stores[threads[t].store]) = Len(stores[threads[t].store].metadatas)
    /\ \A t, u \in Threads :
          (t # u /\ InAdd(t) /\ threads[u].store = threads[t].store)
              => ~(InAdd(u) \/ InSearch(u))

\* C3: while a thread is inside clear_index no add or search is in flight.
C3_ClearExcludesAddSearch ==
    \A t, u \in Threads : (t # u /\ InClear(t)) => ~(InAdd(u) \/ InSearch(u))

\* C29: of the get_or_create_index calls in flight at most one has
\* constructed a store.
C29_OneStoreConstructed ==
    \A t, u \in Threads :
       t # u => ~(threads[t].newId # NoStore /\ threads[u].newId # NoStore)

---------------------------------------------------------------------------
(* SpecCrash: the threads of SpecConc, and the process stopping after any  *)
(* statement and starting again over the files it left.                    *)

\* No embedding is made here, so the new process is given the old salt.
NextCrash == NextConc \/ Restart(hashSeed)

SpecCrash == InitConc /\ [][NextCrash]_vars

\* C26: when the only call in flight is an add, and it ends or the process
\* stops, the two artifacts left on disk load into a store with as many
\* vectors as records.
C26_ArtifactsAreOneUnit ==
    [][(/\ \E t \in Threads :
             InAdd(t) /\ \A u \in Threads \ {t} : At(u, "idle")
        /\ \A t \in Threads : threads'[t].pc = "idle")
          => NumVectors(IndexOnDisk(disk')) = Len(IndexOnDisk(disk').metadatas)]_vars

====
